---- MODULE Spec2Model ----
(***************************************************************************)
(* Model of src/index.ts: the esbuild dynamic-import plugin.                *)
(*                                                                          *)
(* Text is a sequence of one-character strings, so that the regular        *)
(* expressions, String.replace and the posix Path functions of the source  *)
(* are computed character by character.                                    *)
(***************************************************************************)
EXTENDS Integers, Sequences, FiniteSets, TLC

(***************************************************************************)
(* Characters and generic string helpers                                   *)
(***************************************************************************)

\* \s of the regular expressions and the characters String.trim removes
WS == {" ", "\t", "\n", "\r"}

\* ["'] of the regular expressions
Quote == {"\"", "'"}

\* the backtick character; a backtick in a string must be closed by a quote for
\* the lexer, so the two together stand for the one character
Backtick == "`'"

Last(s) == s[Len(s)]

IsPrefixAt(s, i, p) ==
    /\ i >= 1
    /\ i + Len(p) - 1 <= Len(s)
    /\ SubSeq(s, i, i + Len(p) - 1) = p

EndsWith(s, p) == Len(p) <= Len(s) /\ SubSeq(s, Len(s) - Len(p) + 1, Len(s)) = p

\* the least element of a non-empty set of numbers
Min(S) == CHOOSE x \in S : \A y \in S : x <= y

Max(S) == CHOOSE x \in S : \A y \in S : x >= y

\* String.prototype.indexOf(p, from), 1-based; 0 when p does not occur
IndexOf(s, p, from) ==
    LET at == {i \in from .. (Len(s) - Len(p) + 1) : IsPrefixAt(s, i, p)}
    IN  IF at = {} THEN 0 ELSE Min(at)

Contains(s, p) == IndexOf(s, p, 1) # 0

\* the first index >= i whose character is in stop, or Len(s) + 1
ScanTo(s, i, stop) ==
    LET at == {j \in i .. Len(s) : j >= 1 /\ s[j] \in stop}
    IN  IF at = {} THEN Len(s) + 1 ELSE Min(at)

\* the first index >= i whose character is not in skip, or Len(s) + 1
SkipOver(s, i, skip) ==
    LET at == {j \in i .. Len(s) : j >= 1 /\ s[j] \notin skip}
    IN  IF at = {} THEN Len(s) + 1 ELSE Min(at)

\* the last index <= i whose character is not in skip, or 0
SkipBack(s, i, skip) ==
    LET at == {j \in 1 .. i : j <= Len(s) /\ s[j] \notin skip}
    IN  IF at = {} THEN 0 ELSE Max(at)

\* the last index <= i whose character is c, or 0
LastIndexOf(s, c, i) ==
    LET at == {j \in 1 .. i : j <= Len(s) /\ s[j] = c}
    IN  IF at = {} THEN 0 ELSE Max(at)

\* String.prototype.trim
Trim(s) ==
    LET a == SkipOver(s, 1, WS)
        b == SkipBack(s, Len(s), WS)
    IN  IF a > b THEN <<>> ELSE SubSeq(s, a, b)

\* s.replace(/c/g, '') for one character c
RemoveChar(s, c) ==
    LET Keep(x) == x # c
    IN  SelectSeq(s, Keep)

RECURSIVE Flat(_)
Flat(ss) == IF ss = <<>> THEN <<>> ELSE Head(ss) \o Flat(Tail(ss))

\* the decimal digits of n, as a template literal prints a number
DigitChar == <<"0", "1", "2", "3", "4", "5", "6", "7", "8", "9">>

RECURSIVE NumberToString(_)
NumberToString(n) ==
    IF n < 10 THEN <<DigitChar[n + 1]>>
    ELSE NumberToString(n \div 10) \o <<DigitChar[(n % 10) + 1]>>

\* GetSubstitution of String.prototype.replace for a string pattern:
\* $$, $&, $ with a backtick and $ with a quote are expanded in the replacement
RECURSIVE GetSubstitution(_, _, _, _)
GetSubstitution(repl, matched, before, after) ==
    IF repl = <<>> THEN <<>>
    ELSE IF Head(repl) = "$" /\ Len(repl) >= 2 /\ repl[2] \in {"$", "&", Backtick, "'"}
    THEN (CASE repl[2] = "$" -> <<"$">>
            [] repl[2] = "&" -> matched
            [] repl[2] = Backtick -> before
            [] repl[2] = "'" -> after)
         \o GetSubstitution(SubSeq(repl, 3, Len(repl)), matched, before, after)
    ELSE <<Head(repl)>> \o GetSubstitution(Tail(repl), matched, before, after)

\* String.prototype.replace(pattern, replacement) with a string pattern:
\* the first occurrence of pattern in s, wherever it is, is replaced
StringReplace(s, pattern, replacement) ==
    LET i == IndexOf(s, pattern, 1)
    IN  IF i = 0 THEN s
        ELSE LET before == SubSeq(s, 1, i - 1)
                 after == SubSeq(s, i + Len(pattern), Len(s))
             IN  before \o GetSubstitution(replacement, pattern, before, after) \o after

(***************************************************************************)
(* The posix functions of node's path module                               *)
(***************************************************************************)

\* Path.isAbsolute
IsAbsolute(path) == Len(path) > 0 /\ path[1] = "/"

\* the parts of path between its "/" characters, empty parts included
RECURSIVE SplitPath(_)
SplitPath(path) ==
    LET i == ScanTo(path, 1, {"/"})
    IN  IF i > Len(path) THEN <<path>>
        ELSE <<SubSeq(path, 1, i - 1)>> \o SplitPath(SubSeq(path, i + 1, Len(path)))

\* normalizeString of node's path: "" and "." parts are dropped, ".." removes the
\* part before it, and is kept only when allowAboveRoot and nothing is left to remove
RECURSIVE NormalizeParts(_, _, _)
NormalizeParts(parts, acc, allowAboveRoot) ==
    IF parts = <<>> THEN acc
    ELSE LET part == Head(parts)
             rest == Tail(parts)
         IN  IF part = <<>> \/ part = <<".">>
             THEN NormalizeParts(rest, acc, allowAboveRoot)
             ELSE IF part = <<".", ".">>
             THEN IF acc # <<>> /\ Last(acc) # <<".", ".">>
                  THEN NormalizeParts(rest, SubSeq(acc, 1, Len(acc) - 1), allowAboveRoot)
                  ELSE IF allowAboveRoot
                  THEN NormalizeParts(rest, Append(acc, part), allowAboveRoot)
                  ELSE NormalizeParts(rest, acc, allowAboveRoot)
             ELSE NormalizeParts(rest, Append(acc, part), allowAboveRoot)

RECURSIVE JoinPath(_)
JoinPath(parts) ==
    IF parts = <<>> THEN <<>>
    ELSE IF Len(parts) = 1 THEN Head(parts)
    ELSE Head(parts) \o <<"/">> \o JoinPath(Tail(parts))

\* Path.normalize
Normalize(path) ==
    IF path = <<>> THEN <<".">>
    ELSE LET isAbsolute == path[1] = "/"
             trailingSeparator == Last(path) = "/"
             p == JoinPath(NormalizeParts(SplitPath(path), <<>>, ~isAbsolute))
         IN  IF p = <<>>
             THEN IF isAbsolute THEN <<"/">>
                  ELSE IF trailingSeparator THEN <<".", "/">> ELSE <<".">>
             ELSE (IF isAbsolute THEN <<"/">> ELSE <<>>)
                  \o p \o (IF trailingSeparator THEN <<"/">> ELSE <<>>)

\* Path.extname: the text from the last "." of the last part of the path, "" when
\* that part has no ".", starts with its only ".", or is ".."
Extname(path) ==
    LET end == SkipBack(path, Len(path), {"/"})
        startPart == LastIndexOf(path, "/", end) + 1
        startDot == LastIndexOf(path, ".", end)
    IN  IF end = 0 \/ startDot < startPart THEN <<>>
        ELSE IF startDot = startPart THEN <<>>
        ELSE IF startDot = end /\ startDot = startPart + 1 /\ path[startPart] = "."
        THEN <<>>
        ELSE SubSeq(path, startDot, end)

\* Path.dirname
Dirname(path) ==
    IF path = <<>> THEN <<".">>
    ELSE LET end == SkipBack(path, Len(path), {"/"})
             slash == LastIndexOf(path, "/", end)
             dirEnd == SkipBack(path, slash, {"/"})
         IN  IF slash = 0 THEN <<".">>
             ELSE IF dirEnd = 0 THEN <<"/">>
             ELSE SubSeq(path, 1, dirEnd)

(***************************************************************************)
(* replaceImports, lines 44-65: the import(...) matches and the destination *)
(* path of a match                                                          *)
(***************************************************************************)

KwImport == <<"i", "m", "p", "o", "r", "t", "(">>

NoMatch == [start |-> 0, end |-> 0, arg |-> <<>>]

\* /import\(([^)]+)\)/ tried at index i: start and end are the indexes of the "i"
\* and of the closing ")", arg is match[1]
MatchAt(s, i) ==
    IF ~IsPrefixAt(s, i, KwImport) THEN NoMatch
    ELSE LET a == i + Len(KwImport)
             e == ScanTo(s, a, {")"})
         IN  IF e > a /\ e <= Len(s)
             THEN [start |-> i, end |-> e, arg |-> SubSeq(s, a, e - 1)]
             ELSE NoMatch

\* fileContents.matchAll(/import\(([^)]+)\)/g), over the text as it was at the call
\* (the scan passes over the indexes where the text import( does not start,
\* at which the expression cannot match)
RECURSIVE MatchAllFrom(_, _)
MatchAllFrom(s, i) ==
    LET next == IndexOf(s, KwImport, i)
        m == MatchAt(s, next)
    IN  IF next = 0 THEN <<>>
        ELSE IF m # NoMatch THEN <<m>> \o MatchAllFrom(s, m.end + 1)
        ELSE MatchAllFrom(s, next + 1)

MatchAll(s) == MatchAllFrom(s, 1)

\* match[0]
FullImport(m) == KwImport \o m.arg \o <<")">>

\* the end of /\/\*.*?\*\// tried at i, 0 when it does not match
BlockCommentEnd(s, i) ==
    IF ~IsPrefixAt(s, i, <<"/", "*">>) THEN 0
    ELSE LET j == IndexOf(s, <<"*", "/">>, i + 2)
         IN  IF j # 0 /\ ScanTo(s, i + 2, {"\n", "\r"}) >= j THEN j + 1 ELSE 0

\* the end of /\/\/.*\n/ tried at i, 0 when it does not match
LineCommentEnd(s, i) ==
    IF ~IsPrefixAt(s, i, <<"/", "/">>) THEN 0
    ELSE LET j == ScanTo(s, i + 2, {"\n", "\r"})
         IN  IF j <= Len(s) /\ s[j] = "\n" THEN j ELSE 0

\* .replace(/(?:\/\*.*?\*\/)|(?:\/\/.*\n)/g, '')
RECURSIVE StripCommentsFrom(_, _)
StripCommentsFrom(s, i) ==
    IF i > Len(s) THEN <<>>
    ELSE LET b == BlockCommentEnd(s, i)
             l == LineCommentEnd(s, i)
         IN  IF b # 0 THEN StripCommentsFrom(s, b + 1)
             ELSE IF l # 0 THEN StripCommentsFrom(s, l + 1)
             ELSE <<s[i]>> \o StripCommentsFrom(s, i + 1)

StripComments(s) == StripCommentsFrom(s, 1)

\* the index after \s*\+\s* tried at i, 0 when it does not match
PlusEnd(s, i) ==
    LET p == SkipOver(s, i, WS)
    IN  IF p <= Len(s) /\ s[p] = "+" THEN SkipOver(s, p + 1, WS) ELSE 0

\* a character that is neither a quote nor white space
IsNonQuoteNonSpace(s, i) == i >= 1 /\ i <= Len(s) /\ s[i] \notin (Quote \cup WS)

IsQuote(s, i) == i >= 1 /\ i <= Len(s) /\ s[i] \in Quote

\* line 54, str+var: .replaceAll(/(["']\s*\+\s*)([^"'\s])/g, '${$2')
RECURSIVE StrPlusVar(_, _)
StrPlusVar(s, i) ==
    IF i > Len(s) THEN <<>>
    ELSE LET q == PlusEnd(s, i + 1)
         IN  IF IsQuote(s, i) /\ q # 0 /\ IsNonQuoteNonSpace(s, q)
             THEN <<"$", "{", s[q]>> \o StrPlusVar(s, q + 1)
             ELSE <<s[i]>> \o StrPlusVar(s, i + 1)

\* line 55, var+str: .replaceAll(/([^"'\s])(\s*\+\s*["'])/g, '$1}')
RECURSIVE VarPlusStr(_, _)
VarPlusStr(s, i) ==
    IF i > Len(s) THEN <<>>
    ELSE LET q == PlusEnd(s, i + 1)
         IN  IF IsNonQuoteNonSpace(s, i) /\ q # 0 /\ IsQuote(s, q)
             THEN <<s[i], "}">> \o VarPlusStr(s, q + 1)
             ELSE <<s[i]>> \o VarPlusStr(s, i + 1)

\* line 56, var+var: .replaceAll(/([^"'\s])(\s*\+\s*)([^"'\s])/g, '$1}${$3')
RECURSIVE VarPlusVar(_, _)
VarPlusVar(s, i) ==
    IF i > Len(s) THEN <<>>
    ELSE LET q == PlusEnd(s, i + 1)
         IN  IF IsNonQuoteNonSpace(s, i) /\ q # 0 /\ IsNonQuoteNonSpace(s, q)
             THEN <<s[i], "}", "$", "{", s[q]>> \o VarPlusVar(s, q + 1)
             ELSE <<s[i]>> \o VarPlusVar(s, i + 1)

\* line 57, str+str: .replaceAll(/["']\s*\+\s*["']/g, '')
RECURSIVE StrPlusStr(_, _)
StrPlusStr(s, i) ==
    IF i > Len(s) THEN <<>>
    ELSE LET q == PlusEnd(s, i + 1)
         IN  IF IsQuote(s, i) /\ q # 0 /\ IsQuote(s, q)
             THEN StrPlusStr(s, q + 1)
             ELSE <<s[i]>> \o StrPlusStr(s, i + 1)

\* line 58, begin var: a first character that is no quote gets a backtick and ${ put before it
BeginVar(s) == IF s # <<>> /\ Head(s) \notin Quote THEN <<Backtick, "$", "{">> \o s ELSE s

\* line 59, begin str: a first character that is a quote becomes a backtick
BeginStr(s) == IF s # <<>> /\ Head(s) \in Quote THEN <<Backtick>> \o Tail(s) ELSE s

\* line 60, end var: a last character that is no quote gets } and a backtick put after it
EndVar(s) == IF s # <<>> /\ Last(s) \notin Quote THEN s \o <<"}", Backtick>> ELSE s

\* line 61, end str: a last character that is a quote becomes a backtick
EndStr(s) ==
    IF s # <<>> /\ Last(s) \in Quote THEN SubSeq(s, 1, Len(s) - 1) \o <<Backtick>> ELSE s

\* lines 53-62: a string concatenation becomes a template string; the order is
\* str+var, var+str, var+var, str+str, begin var, begin str, end var, end str
ConcatToTemplate(s) ==
    IF Trim(s) # <<>> /\ Head(Trim(s)) = Backtick THEN s
    ELSE EndStr(EndVar(BeginStr(BeginVar(
             StrPlusStr(VarPlusVar(VarPlusStr(StrPlusVar(s, 1), 1), 1), 1)))))

\* lines 50-65: destinationFile of a match
DestinationFile(m) ==
    Trim(RemoveChar(ConcatToTemplate(Trim(StripComments(m.arg))), Backtick))

(***************************************************************************)
(* replaceImports, lines 67-79: the classification of one match            *)
(***************************************************************************)

ExtJs == <<".", "j", "s">>
ExtJson == <<".", "j", "s", "o", "n">>

\* /^.*\${.*?}.*$/.test(destinationFile): one line holding ${ and a later }
HasInterpolation(dest) ==
    LET i == IndexOf(dest, <<"$", "{">>, 1)
    IN  /\ ScanTo(dest, 1, {"\n", "\r"}) > Len(dest)
        /\ i # 0
        /\ ScanTo(dest, i + 2, {"}"}) <= Len(dest)

\* destinationFile.replace(/\${.*?}/g, '**/*')
RECURSIVE TransformedDestination(_, _)
TransformedDestination(dest, i) ==
    IF i > Len(dest) THEN <<>>
    ELSE LET j == ScanTo(dest, i + 2, {"}", "\n", "\r"})
         IN  IF IsPrefixAt(dest, i, <<"$", "{">>) /\ j <= Len(dest) /\ dest[j] = "}"
             THEN <<"*", "*", "/", "*">> \o TransformedDestination(dest, j + 1)
             ELSE <<dest[i]>> \o TransformedDestination(dest, i + 1)

\* IsAbsolutified with the .json case under the guards of the .js case
M_IsAbsolutified(dest, config) ==
    /\ config.changeRelativeToAbsolute
    /\ ~IsAbsolute(dest)
    /\ Extname(dest) \in {ExtJs, ExtJson}

\* the condition of line 71; && binds tighter than ||, so the .json case
\* depends neither on changeRelativeToAbsolute nor on the path being relative
IsAbsolutified(dest, config) ==
    \/ /\ config.changeRelativeToAbsolute
       /\ ~IsAbsolute(dest)
       /\ Extname(dest) = ExtJs
    \/ Extname(dest) = ExtJson

\* the condition of line 74
IsGlobTransformed(dest, config) ==
    /\ config.transformExtensions.isArray
    /\ Extname(dest) \in config.transformExtensions.items
    /\ HasInterpolation(dest)

\* the branch of lines 71-78 that a destination path takes
Classify(dest, config) ==
    IF IsAbsolutified(dest, config) THEN "absolute"
    ELSE IF IsGlobTransformed(dest, config) THEN "glob"
    ELSE "untouched"

\* line 72
NormalizedPath(resolveDir, dest) == Normalize(resolveDir \o <<"/">> \o dest)

\* line 73: the first occurrence of match[1] in the current text is replaced
ReplaceArgument(fileContents, m, normalizedPath) ==
    StringReplace(fileContents, m.arg, <<Backtick>> \o normalizedPath \o <<Backtick>>)

\* the body of the loop of lines 48-79 for one match; st holds the variables
\* fileContents, importsToReplace and globImports of replaceImports
ProcessMatch(st, m, resolveDir, config) ==
    LET destinationFile == DestinationFile(m)
        class == Classify(destinationFile, config)
    IN  IF class = "absolute"
        THEN [st EXCEPT !.fileContents =
                 ReplaceArgument(@, m, NormalizedPath(resolveDir, destinationFile))]
        ELSE IF class = "glob"
        THEN [st EXCEPT
                 !.importsToReplace = Append(@,
                     [fullImport |-> FullImport(m),
                      pathString |-> <<Backtick>> \o destinationFile \o <<Backtick>>]),
                 !.globImports = Append(@, TransformedDestination(destinationFile, 1))]
        ELSE st

\* lines 44-47
StartState(fileContents) ==
    [fileContents |-> fileContents, importsToReplace |-> <<>>, globImports |-> <<>>]

RECURSIVE ProcessMatches(_, _, _, _)
ProcessMatches(st, ms, resolveDir, config) ==
    IF ms = <<>> THEN st
    ELSE ProcessMatches(ProcessMatch(st, Head(ms), resolveDir, config),
                        Tail(ms), resolveDir, config)

\* lines 44-79: the synchronous part of replaceImports, up to the glob calls
ClassifyAll(fileContents, resolveDir, config) ==
    ProcessMatches(StartState(fileContents), MatchAll(fileContents), resolveDir, config)

(***************************************************************************)
(* replaceImports, lines 81-148: glob results, module map, generated code   *)
(***************************************************************************)

\* A glob outcome is [ok |-> BOOLEAN, paths |-> the paths FastGlob resolved to].
\* lines 86-92: Promise.all rejects when any promise rejects; the catch logs the
\* error and importFilePaths keeps its initial value []
AwaitAll(outcomes) ==
    IF \A i \in DOMAIN outcomes : outcomes[i].ok
    THEN Flat([i \in DOMAIN outcomes |-> outcomes[i].paths])
    ELSE <<>>

\* the callback of the filter of lines 95-100: it returns an array on both
\* branches, and Array.prototype.filter keeps an element when the value returned
\* is truthy, which every array is
FilterCallbackTruthy(filePath) ==
    IF EndsWith(filePath, ExtJs) THEN TRUE ELSE TRUE

JsImportFilePaths(importFilePaths) ==
    SelectSeq(importFilePaths, FilterCallbackTruthy)

\* jsFilePath.replace(/\.js$/, '')
WithoutJs(filePath) ==
    IF EndsWith(filePath, ExtJs) THEN SubSeq(filePath, 1, Len(filePath) - Len(ExtJs))
    ELSE filePath

\* lines 101-105
WithAliases(importFilePaths) ==
    LET js == JsImportFilePaths(importFilePaths)
    IN  importFilePaths \o [i \in DOMAIN js |-> WithoutJs(js[i])]

ModulePrefix == <<"_", "D", "y", "n", "a", "m", "i", "c", "I", "m", "p", "o", "r", "t", "M", "o", "d", "u", "l", "e">>

\* the identifier of slot n
ModuleName(n) == ModulePrefix \o NumberToString(n)

\* the index of key in a sequence of keys, 0 when it is not there (Map.has)
RECURSIVE KeyIndexFrom(_, _, _)
KeyIndexFrom(keys, key, i) ==
    IF i > Len(keys) THEN 0
    ELSE IF keys[i] = key THEN i
    ELSE KeyIndexFrom(keys, key, i + 1)

KeyIndex(keys, key) == KeyIndexFrom(keys, key, 1)

\* Map.set on a Map kept as a sequence of [key, value] in insertion order
MapSet(map, key, value) ==
    LET i == KeyIndex([j \in DOMAIN map |-> map[j].key], key)
    IN  IF i = 0 THEN Append(map, [key |-> key, value |-> value])
        ELSE [map EXCEPT ![i].value = value]

\* DedupStep with the slot looked up by the spelling, not the normalized path
M_DedupStep(d, filePath, resolveDir) ==
    LET isNew == KeyIndex(d.uniqueFilePathsMap, filePath) = 0
        unique == IF isNew THEN Append(d.uniqueFilePathsMap, filePath)
                  ELSE d.uniqueFilePathsMap
    IN  [uniqueFilePathsMap |-> unique,
         moduleMap |-> MapSet(d.moduleMap, filePath,
                              ModuleName(KeyIndex(unique, filePath) - 1)),
         dedupedImportFilePaths |->
             IF isNew THEN Append(d.dedupedImportFilePaths, filePath)
             ELSE d.dedupedImportFilePaths]

\* the callback of the filter of lines 113-122 for one filePath; d holds
\* uniqueFilePathsMap (its keys in insertion order: the value of a key is its
\* index less one), moduleMap and the elements kept so far
DedupStep(d, filePath, resolveDir) ==
    LET pathNormalized == Normalize(resolveDir \o <<"/">> \o filePath)
        isNew == KeyIndex(d.uniqueFilePathsMap, pathNormalized) = 0
        unique == IF isNew THEN Append(d.uniqueFilePathsMap, pathNormalized)
                  ELSE d.uniqueFilePathsMap
    IN  [uniqueFilePathsMap |-> unique,
         moduleMap |-> MapSet(d.moduleMap, filePath,
                              ModuleName(KeyIndex(unique, pathNormalized) - 1)),
         dedupedImportFilePaths |->
             IF isNew THEN Append(d.dedupedImportFilePaths, filePath)
             ELSE d.dedupedImportFilePaths]

RECURSIVE Dedup(_, _, _)
Dedup(d, importFilePaths, resolveDir) ==
    IF importFilePaths = <<>> THEN d
    ELSE Dedup(DedupStep(d, Head(importFilePaths), resolveDir),
               Tail(importFilePaths), resolveDir)

\* lines 111-122
DedupAll(importFilePaths, resolveDir) ==
    Dedup([uniqueFilePathsMap |-> <<>>, moduleMap |-> <<>>,
           dedupedImportFilePaths |-> <<>>], importFilePaths, resolveDir)

\* line 126: one static import statement
ImportStatement(i, path) ==
    <<"i", "m", "p", "o", "r", "t", " ", "*", " ", "a", "s", " ">> \o ModuleName(i)
    \o <<" ", "f", "r", "o", "m", " ", "'">> \o path \o <<"'", ";">>

\* lines 124-127: the reduce over dedupedImportFilePaths, i counting from 0
RECURSIVE ImportString(_, _)
ImportString(paths, n) ==
    IF n = 0 THEN <<>>
    ELSE LET accum == ImportString(paths, n - 1)
         IN  (IF accum # <<>> THEN accum \o <<"\n">> ELSE accum)
             \o ImportStatement(n - 1, paths[n])

\* line 132: one entry of the object literal
MapEntry(e) == <<"'">> \o e.key \o <<"'", ":">> \o e.value \o <<",">>

\* .replace(/.$/, '};'): a last character that is no line terminator is replaced
ReplaceLastChar(str) ==
    IF str # <<>> /\ Last(str) \notin {"\n", "\r"}
    THEN SubSeq(str, 1, Len(str) - 1) \o <<"}", ";">>
    ELSE str

\* lines 129-136
ObjectMapString(moduleMap) ==
    ReplaceLastChar(<<"c", "o", "n", "s", "t", " ", "_", "D", "y", "n", "a", "m", "i", "c", "I", "m", "p", "o", "r", "t", "M", "o", "d", "u", "l", "e", "M", "a", "p", " ", "=", " ", "{">>
                    \o Flat([i \in DOMAIN moduleMap |-> MapEntry(moduleMap[i])]))

\* line 138
ImportFunctionString ==
    <<"f", "u", "n", "c", "t", "i", "o", "n", " ", "_", "D", "y", "n", "a", "m", "i", "c", "I", "m", "p", "o", "r", "t", "(", "p", "a", "t", "h", ")", " ", "{", "c", "o", "n", "s", "t", " ", "m", "o", "d", "=", "_", "D", "y", "n", "a", "m", "i", "c", "I", "m", "p", "o", "r", "t", "M", "o", "d", "u", "l", "e", "M", "a", "p", "[", "p", "a", "t", "h", "]", ";">>
    \o <<"i", "f", "(", "m", "o", "d", ")", " ", "{", "m", "o", "d", "[", "S", "y", "m", "b", "o", "l", ".", "t", "o", "S", "t", "r", "i", "n", "g", "T", "a", "g", "]", "=", "'", "M", "o", "d", "u", "l", "e", "'", ";", "}", "r", "e", "t", "u", "r", "n", " ", "P", "r", "o", "m", "i", "s", "e", ".", "r", "e", "s", "o", "l", "v", "e", "(", "m", "o", "d", ")", ";", "}">>

\* line 140
JsStr(d) ==
    ImportString(d.dedupedImportFilePaths, Len(d.dedupedImportFilePaths)) \o <<"\n">>
    \o ObjectMapString(d.moduleMap) \o <<"\n">>
    \o ImportFunctionString \o <<"\n">>

KwDynamicImport == <<"_", "D", "y", "n", "a", "m", "i", "c", "I", "m", "p", "o", "r", "t", "(">>

\* line 143: the first occurrence of the full import text is replaced
ReplaceQueued(fileContents, importData) ==
    StringReplace(fileContents, importData.fullImport,
                  KwDynamicImport \o importData.pathString \o <<")">>)

\* lines 142-144
RECURSIVE ReplaceAllQueued(_, _)
ReplaceAllQueued(fileContents, importsToReplace) ==
    IF importsToReplace = <<>> THEN fileContents
    ELSE ReplaceAllQueued(ReplaceQueued(fileContents, Head(importsToReplace)),
                          Tail(importsToReplace))

NoDedup == [uniqueFilePathsMap |-> <<>>, moduleMap |-> <<>>,
            dedupedImportFilePaths |-> <<>>]

\* lines 81-148, given the outcome of each glob call: the text returned, with
\* the values of importFilePaths and of the maps it was built from
FinishReplaceImports(st, outcomes, resolveDir) ==
    LET importFilePaths == WithAliases(AwaitAll(outcomes))
        d == DedupAll(importFilePaths, resolveDir)
    IN  IF st.globImports = <<>> \/ importFilePaths = <<>>
        THEN [contents |-> st.fileContents, preamble |-> <<>>,
              importFilePaths |-> importFilePaths, d |-> NoDedup]
        ELSE [contents |-> JsStr(d) \o ReplaceAllQueued(st.fileContents, st.importsToReplace),
              preamble |-> JsStr(d),
              importFilePaths |-> importFilePaths, d |-> d]

(***************************************************************************)
(* Inputs                                                                   *)
(***************************************************************************)

\* const a = 1;
FileNoImport ==
    <<"c", "o", "n", "s", "t", " ", "a", " ", "=", " ", "1", ";">>

\* import((backtick)./mod-${x}.js(backtick))
FileTemplateJs ==
    <<"i", "m", "p", "o", "r", "t", "(", Backtick, ".", "/", "m", "o", "d", "-", "$", "{", "x", "}", ".", "j", "s", Backtick, ")">>

\* f(); import('./foo.js')
FileRelativeJs ==
    <<"f", "(", ")", ";", " ", "i", "m", "p", "o", "r", "t", "(", "'", ".", "/", "f", "o", "o", ".", "j", "s", "'", ")">>

\* import('./foo.json')
FileRelativeJson ==
    <<"i", "m", "p", "o", "r", "t", "(", "'", ".", "/", "f", "o", "o", ".", "j", "s", "o", "n", "'", ")">>

\* import(/* c */ ''./l/en.json'' // d\n)
FileCommentedJson ==
    <<"i", "m", "p", "o", "r", "t", "(", "/", "*", " ", "c", " ", "*", "/", " ", "\"", ".", "/", "l", "/", "e", "n", ".", "j", "s", "o", "n", "\"", " ", "/", "/", " ", "d", "\n", ")">>

\* s = './foo.js'; import('./foo.js')
FileArgumentTwice ==
    <<"s", " ", "=", " ", "'", ".", "/", "f", "o", "o", ".", "j", "s", "'", ";", " ", "i", "m", "p", "o", "r", "t", "(", "'", ".", "/", "f", "o", "o", ".", "j", "s", "'", ")">>

\* import('./foo.js'); import('./foo.js')
FileSameImportTwice ==
    <<"i", "m", "p", "o", "r", "t", "(", "'", ".", "/", "f", "o", "o", ".", "j", "s", "'", ")", ";", " ", "i", "m", "p", "o", "r", "t", "(", "'", ".", "/", "f", "o", "o", ".", "j", "s", "'", ")">>

\* import('./a.js' + x + '.vue'); import('./a.js')
FileQueuedThenPlain ==
    <<"i", "m", "p", "o", "r", "t", "(", "'", ".", "/", "a", ".", "j", "s", "'", " ", "+", " ", "x", " ", "+", " ", "'", ".", "v", "u", "e", "'", ")", ";", " ", "i", "m", "p", "o", "r", "t", "(", "'", ".", "/", "a", ".", "j", "s", "'", ")">>

\* import('./l/' + n + '.vue'); import((backtick)./m/${k}.js(backtick))
FileTwoTemplates ==
    <<"i", "m", "p", "o", "r", "t", "(", "'", ".", "/", "l", "/", "'", " ", "+", " ", "n", " ", "+", " ", "'", ".", "v", "u", "e", "'", ")", ";", " ", "i", "m", "p", "o", "r", "t", "(", Backtick, ".", "/", "m", "/", "$", "{", "k", "}", ".", "j", "s", Backtick, ")">>

\* import('/x/y.css'); import(v)
FileAbsoluteCss ==
    <<"i", "m", "p", "o", "r", "t", "(", "'", "/", "x", "/", "y", ".", "c", "s", "s", "'", ")", ";", " ", "i", "m", "p", "o", "r", "t", "(", "v", ")">>

\* import((backtick)/x/${n}.vue(backtick))
FileAbsoluteVue ==
    <<"i", "m", "p", "o", "r", "t", "(", Backtick, "/", "x", "/", "$", "{", "n", "}", ".", "v", "u", "e", Backtick, ")">>

\* import('/x/y.json')
FileAbsoluteJson ==
    <<"i", "m", "p", "o", "r", "t", "(", "'", "/", "x", "/", "y", ".", "j", "s", "o", "n", "'", ")">>

\* import('/x/y.js')
FileAbsoluteJs ==
    <<"i", "m", "p", "o", "r", "t", "(", "'", "/", "x", "/", "y", ".", "j", "s", "'", ")">>

Files ==
    {FileNoImport,
     FileTemplateJs,
     FileRelativeJs,
     FileRelativeJson,
     FileCommentedJson,
     FileArgumentTwice,
     FileSameImportTwice,
     FileQueuedThenPlain,
     FileTwoTemplates,
     FileAbsoluteCss,
     FileAbsoluteVue,
     FileAbsoluteJson,
     FileAbsoluteJs}

\* paths that FastGlob may resolve a pattern to, relative to resolveDir
PathA == <<"m", "o", "d", "-", "a", ".", "j", "s">>
PathB == <<"m", "o", "d", "-", "b", ".", "j", "s">>
PathADot == <<".", "/", "m", "o", "d", "-", "a", ".", "j", "s">>
PathAUp == <<"s", "u", "b", "/", ".", ".", "/", "m", "o", "d", "-", "a", ".", "j", "s">>
PathVue == <<"l", "/", "e", "n", ".", "v", "u", "e">>
PathJson == <<"c", ".", "j", "s", "o", "n">>

ExtVue == <<".", "v", "u", "e">>

DirAB == <<"/", "a", "/", "b">>
DirD == <<"/", "d">>

Dirs == {DirAB, DirD}

\* the outcomes of one FastGlob call: it rejects, or resolves to a list of paths
GlobFailed == [ok |-> FALSE, paths |-> <<>>]

GlobOutcomes ==
    {GlobFailed,
     [ok |-> TRUE, paths |-> <<>>],
     [ok |-> TRUE, paths |-> <<PathA, PathB>>],
     [ok |-> TRUE, paths |-> <<PathA, PathADot, PathAUp>>],
     [ok |-> TRUE, paths |-> <<PathVue, PathA>>],
     [ok |-> TRUE, paths |-> <<PathJson>>]}

Undefined == "undefined"

\* lines 6-16: the configurations the plugin accepts; the constructor throws on
\* one with no transformExtensions array and changeRelativeToAbsolute falsy
ConfigIsValid(c) == c.transformExtensions.isArray \/ c.changeRelativeToAbsolute

AllConfigs ==
    [transformExtensions :
         {[isArray |-> FALSE, items |-> {}],
          [isArray |-> TRUE, items |-> {ExtJs}],
          [isArray |-> TRUE, items |-> {ExtJs, ExtVue}]},
     changeRelativeToAbsolute : BOOLEAN,
     loader : {Undefined, "ts"}]

Configs == {c \in AllConfigs : ConfigIsValid(c)}

\* files the build loads; all are accepted by the default filter
PathModuleJs == <<"/", "a", "/", "b", "/", "m", ".", "j", "s">>
PathDataJson == <<"/", "a", "/", "b", "/", "d", ".", "j", "s", "o", "n">>

Paths == {PathModuleJs, PathDataJson}

\* the contents the loaded files take
LoaderFiles == {FileTemplateJs, FileRelativeJson}

\* the configurations the loader is run with
LoaderConfigs ==
    {[transformExtensions |-> [isArray |-> TRUE, items |-> {ExtJs}],
      changeRelativeToAbsolute |-> FALSE, loader |-> Undefined],
     [transformExtensions |-> [isArray |-> FALSE, items |-> {}],
      changeRelativeToAbsolute |-> TRUE, loader |-> "ts"]}

\* the glob outcomes seen by the loader
LoaderGlobOutcomes ==
    {GlobFailed, [ok |-> TRUE, paths |-> <<PathA, PathB>>]}

\* the overlapping invocations of the onLoad callback
MaxInvocations == 2
Invocations == 1 .. MaxInvocations

\* the number of load requests of a run
MaxLoads == 2

\* how many times replaceImports is applied to its own output
MaxPasses == 2

(***************************************************************************)
(* State                                                                    *)
(***************************************************************************)

VARIABLES
    config,        \* the DynamicImportConfig the plugin was built with
    disk,          \* the contents of each file, as FsPromise.readFile returns it
    cache,         \* the Map of line 22
    inv,           \* the invocations of the onLoad callback
    loads,         \* the load requests made so far
    rewriteCalls,  \* the calls of replaceImports so far
    globCalls,     \* the calls of FastGlob so far
    lastRead,      \* per path, the contents read by the last read of that path
    rw             \* a run of replaceImports on its own, match by match

vars == <<config, disk, cache, inv, loads, rewriteCalls, globCalls, lastRead, rw>>

loaderVars == <<disk, cache, inv, loads, rewriteCalls, globCalls, lastRead>>

NoOutput == [contents |-> <<>>, loader |-> ""]

NoEntry == [present |-> FALSE, fileContents |-> <<>>, output |-> NoOutput]

NotRead == <<"?">>

Idle ==
    [pc |-> "idle", path |-> <<>>, resolveDir |-> <<>>, loader |-> "",
     fileContents |-> <<>>, st |-> StartState(<<>>), contents |-> <<>>,
     hit |-> FALSE, output |-> NoOutput]

NoOut == [contents |-> <<>>, preamble |-> <<>>, importFilePaths |-> <<>>, d |-> NoDedup]

NoPrev == [input |-> <<>>, st |-> StartState(<<>>), out |-> NoOut]

\* replaceImports entered with fileContents and resolveDir (lines 43-47)
RwStart(fileContents, resolveDir, pass, prev) ==
    [pc |-> "classify", pass |-> pass, input |-> fileContents,
     resolveDir |-> resolveDir, matches |-> MatchAll(fileContents), k |-> 1,
     st |-> StartState(fileContents), outcomes |-> <<>>, out |-> NoOut,
     prev |-> prev]

LoaderInit ==
    /\ disk \in [Paths -> LoaderFiles]
    /\ cache = [p \in Paths |-> NoEntry]
    /\ inv = [i \in Invocations |-> Idle]
    /\ loads = 0
    /\ rewriteCalls = 0
    /\ globCalls = 0
    /\ lastRead = [p \in Paths |-> NotRead]

\* the state once the plugin is built and set up (lines 13-22)
Init ==
    /\ config \in LoaderConfigs
    /\ LoaderInit
    /\ rw = RwStart(FileNoImport, DirAB, 1, NoPrev)

\* replaceImports called on one of the input files
InitRewrite ==
    /\ config \in Configs
    /\ disk = [p \in Paths |-> FileNoImport]
    /\ cache = [p \in Paths |-> NoEntry]
    /\ inv = [i \in Invocations |-> Idle]
    /\ loads = 0
    /\ rewriteCalls = 0
    /\ globCalls = 0
    /\ lastRead = [p \in Paths |-> NotRead]
    /\ \E fileContents \in Files, resolveDir \in Dirs :
           rw = RwStart(fileContents, resolveDir, 1, NoPrev)

(***************************************************************************)
(* replaceImports, step by step                                             *)
(***************************************************************************)

\* one iteration of the loop of lines 48-79
RwProcessMatch ==
    /\ rw.pc = "classify"
    /\ rw.k <= Len(rw.matches)
    /\ rw' = [rw EXCEPT
                 !.st = ProcessMatch(@, rw.matches[rw.k], rw.resolveDir, config),
                 !.k = @ + 1]
    /\ UNCHANGED <<config, loaderVars>>

\* line 81 false: no import was queued, the text is returned (line 148)
RwReturnNoGlob ==
    /\ rw.pc = "classify"
    /\ rw.k > Len(rw.matches)
    /\ rw.st.globImports = <<>>
    /\ rw' = [rw EXCEPT !.pc = "done",
                        !.out = FinishReplaceImports(rw.st, <<>>, rw.resolveDir)]
    /\ UNCHANGED <<config, loaderVars>>

\* lines 81-148: one FastGlob call per queued import, each with its outcome
RwGlobResolved ==
    /\ rw.pc = "classify"
    /\ rw.k > Len(rw.matches)
    /\ rw.st.globImports # <<>>
    /\ \E outcomes \in [1 .. Len(rw.st.globImports) -> GlobOutcomes] :
           rw' = [rw EXCEPT !.pc = "done",
                            !.outcomes = outcomes,
                            !.out = FinishReplaceImports(rw.st, outcomes, rw.resolveDir)]
    /\ UNCHANGED <<config, loaderVars>>

\* replaceImports called again on the text it returned, with the same resolveDir
RwReapply ==
    /\ rw.pc = "done"
    /\ rw.pass < MaxPasses
    /\ rw' = RwStart(rw.out.contents, rw.resolveDir, rw.pass + 1,
                     [input |-> rw.input, st |-> rw.st, out |-> rw.out])
    /\ UNCHANGED <<config, loaderVars>>

NextRewrite ==
    \/ RwProcessMatch
    \/ RwReturnNoGlob
    \/ RwGlobResolved
    \/ RwReapply

SpecRewrite == InitRewrite /\ [][NextRewrite]_vars

(***************************************************************************)
(* The onLoad callback, lines 24-38                                         *)
(***************************************************************************)

\* line 17: the default filter /\.(js|json)$/
MatchesFilter(path) == EndsWith(path, ExtJs) \/ EndsWith(path, ExtJson)

\* line 18: config.loader ?? 'js'
DefaultLoader(c) == IF c.loader = Undefined THEN "js" ELSE c.loader

\* LoaderFor without the .json case
M_LoaderFor(path, c) == DefaultLoader(c)

\* lines 26-27
LoaderFor(path, c) == IF Extname(path) = ExtJson THEN "json" ELSE DefaultLoader(c)

\* CacheHit without the cache busting check
M_CacheHit(value, fileContents) == value.present

\* line 32, negated: the cache holds a value for the path and its fileContents
\* are the contents just read
CacheHit(value, fileContents) == value.present /\ value.fileContents = fileContents

\* NewValue keyed by the rewritten text in place of the contents read
M_NewValue(fileContents, contents, loader) ==
    [present |-> TRUE, fileContents |-> contents,
     output |-> [contents |-> contents, loader |-> loader]]

\* lines 34-35: the value stored by cache.set
NewValue(fileContents, contents, loader) ==
    [present |-> TRUE, fileContents |-> fileContents,
     output |-> [contents |-> contents, loader |-> loader]]

\* lines 24-28: the host calls the callback for a path the filter accepts; the
\* callback runs up to the await of readFile
LoadStart(i, path) ==
    /\ inv[i].pc = "idle"
    /\ loads < MaxLoads
    /\ MatchesFilter(path)
    /\ inv' = [inv EXCEPT ![i] =
                  [Idle EXCEPT !.pc = "reading", !.path = path,
                               !.resolveDir = Dirname(path),
                               !.loader = LoaderFor(path, config)]]
    /\ loads' = loads + 1
    /\ UNCHANGED <<config, disk, cache, rewriteCalls, globCalls, lastRead, rw>>

\* lines 28-32 and 37: readFile resolves, the cache holds the contents read and
\* the cached output is returned
ReadHit(i) ==
    /\ inv[i].pc = "reading"
    /\ CacheHit(cache[inv[i].path], disk[inv[i].path])
    /\ inv' = [inv EXCEPT ![i].pc = "done",
                          ![i].fileContents = disk[inv[i].path],
                          ![i].hit = TRUE,
                          ![i].output = cache[inv[i].path].output]
    /\ lastRead' = [lastRead EXCEPT ![inv[i].path] = disk[inv[i].path]]
    /\ UNCHANGED <<config, disk, cache, loads, rewriteCalls, globCalls, rw>>

\* lines 28-33 and 44-85: readFile resolves, the cache does not hold the contents
\* read, and replaceImports runs up to its await: the matches are classified and
\* one FastGlob call is made per queued import
ReadMiss(i) ==
    /\ inv[i].pc = "reading"
    /\ ~CacheHit(cache[inv[i].path], disk[inv[i].path])
    /\ LET st == ClassifyAll(disk[inv[i].path], inv[i].resolveDir, config)
       IN  /\ inv' = [inv EXCEPT
                         ![i].pc = IF st.globImports = <<>> THEN "rewritten"
                                   ELSE "globbing",
                         ![i].fileContents = disk[inv[i].path],
                         ![i].st = st,
                         ![i].contents = st.fileContents]
           /\ globCalls' = globCalls + Len(st.globImports)
    /\ rewriteCalls' = rewriteCalls + 1
    /\ lastRead' = [lastRead EXCEPT ![inv[i].path] = disk[inv[i].path]]
    /\ UNCHANGED <<config, disk, cache, loads, rw>>

\* lines 86-148: the glob calls have settled and replaceImports returns
GlobDone(i) ==
    /\ inv[i].pc = "globbing"
    /\ \E outcomes \in [1 .. Len(inv[i].st.globImports) -> LoaderGlobOutcomes] :
           inv' = [inv EXCEPT
                      ![i].pc = "rewritten",
                      ![i].contents =
                          FinishReplaceImports(inv[i].st, outcomes,
                                               inv[i].resolveDir).contents]
    /\ UNCHANGED <<config, disk, cache, loads, rewriteCalls, globCalls, lastRead, rw>>

\* lines 33-37: the await of replaceImports resumes, the value is stored in the
\* cache and its output returned
StoreAndReturn(i) ==
    /\ inv[i].pc = "rewritten"
    /\ LET value == NewValue(inv[i].fileContents, inv[i].contents, inv[i].loader)
       IN  /\ cache' = [cache EXCEPT ![inv[i].path] = value]
           /\ inv' = [inv EXCEPT ![i].pc = "done", ![i].output = value.output]
    /\ UNCHANGED <<config, disk, loads, rewriteCalls, globCalls, lastRead, rw>>

\* the host has taken the output; the invocation is over
Finish(i) ==
    /\ inv[i].pc = "done"
    /\ inv' = [inv EXCEPT ![i] = Idle]
    /\ UNCHANGED <<config, disk, cache, loads, rewriteCalls, globCalls, lastRead, rw>>

\* a file is edited between two reads
FileChange(path, fileContents) ==
    /\ disk[path] # fileContents
    /\ disk' = [disk EXCEPT ![path] = fileContents]
    /\ UNCHANGED <<config, cache, inv, loads, rewriteCalls, globCalls, lastRead, rw>>

\* load requests may overlap: the callback is async and nothing serialises it
Next ==
    \/ \E i \in Invocations, path \in Paths : LoadStart(i, path)
    \/ \E i \in Invocations : ReadHit(i)
    \/ \E i \in Invocations : ReadMiss(i)
    \/ \E i \in Invocations : GlobDone(i)
    \/ \E i \in Invocations : StoreAndReturn(i)
    \/ \E i \in Invocations : Finish(i)
    \/ \E path \in Paths, fileContents \in LoaderFiles : FileChange(path, fileContents)

Spec == Init /\ [][Next]_vars

\* each load request completes before the next one starts
LoadStartAlone(i, path) ==
    /\ \A j \in Invocations : inv[j].pc = "idle"
    /\ LoadStart(i, path)

NextSequential ==
    \/ \E i \in Invocations, path \in Paths : LoadStartAlone(i, path)
    \/ \E i \in Invocations : ReadHit(i)
    \/ \E i \in Invocations : ReadMiss(i)
    \/ \E i \in Invocations : GlobDone(i)
    \/ \E i \in Invocations : StoreAndReturn(i)
    \/ \E i \in Invocations : Finish(i)
    \/ \E path \in Paths, fileContents \in LoaderFiles : FileChange(path, fileContents)

SpecSequential == Init /\ [][NextSequential]_vars

(***************************************************************************)
(* Properties of replaceImports, checked under SpecRewrite                  *)
(***************************************************************************)

\* the number of places where p occurs in s
CountOcc(s, p) == Cardinality({i \in 1 .. Len(s) : IsPrefixAt(s, i, p)})

Quoted(path) == <<Backtick>> \o path \o <<Backtick>>

\* the arguments of the import(...) calls of a text, in order
ImportArgs(text) == [i \in DOMAIN MatchAll(text) |-> MatchAll(text)[i].arg]

\* the text with the argument of match m, at the position of m, replaced by arg
SpliceArgument(text, m, arg) ==
    SubSeq(text, 1, m.start + Len(KwImport) - 1) \o arg \o SubSeq(text, m.end, Len(text))

\* the text with the arguments of those of its first k matches that are
\* absolutified replaced in place, each at its own position (from the last to the
\* first, so that no position moves before it is used)
RECURSIVE AbsolutifiedInPlace(_, _, _, _)
AbsolutifiedInPlace(text, ms, k, resolveDir) ==
    IF k = 0 THEN text
    ELSE LET dest == DestinationFile(ms[k])
         IN  AbsolutifiedInPlace(
                 IF IsAbsolutified(dest, config)
                 THEN SpliceArgument(text, ms[k], Quoted(NormalizedPath(resolveDir, dest)))
                 ELSE text,
                 ms, k - 1, resolveDir)

\* the value moduleMap holds for key; <<>> when key is no key of it
MapGet(map, key) ==
    LET at == {j \in DOMAIN map : map[j].key = key}
    IN  IF at = {} THEN <<>> ELSE map[CHOOSE j \in at : TRUE].value

NormalizedIn(resolveDir, filePath) == Normalize(resolveDir \o <<"/">> \o filePath)

KwStaticImport == <<"i", "m", "p", "o", "r", "t", " ", "*", " ", "a", "s", " ">>

\* C2: for a file with one queued template import whose glob resolves to n
\* distinct files all ending in .js, exactly n static imports are emitted and
\* the module map has 2n keys, each .js spelling and its extension-less alias,
\* the alias mapping to the slot of its .js spelling.
C2_AliasSharesSlot ==
    (/\ rw.pc = "done"
     /\ rw.pass = 1
     /\ Len(rw.st.importsToReplace) = 1
     /\ rw.outcomes[1].ok
     /\ rw.outcomes[1].paths # <<>>
     /\ \A i \in DOMAIN rw.outcomes[1].paths :
            /\ EndsWith(rw.outcomes[1].paths[i], ExtJs)
            /\ \A j \in DOMAIN rw.outcomes[1].paths :
                   i # j => NormalizedIn(rw.resolveDir, rw.outcomes[1].paths[i])
                            # NormalizedIn(rw.resolveDir, rw.outcomes[1].paths[j]))
    => LET paths == rw.outcomes[1].paths
           moduleMap == rw.out.d.moduleMap
       IN  /\ CountOcc(rw.out.preamble, KwStaticImport) = Len(paths)
           /\ Len(moduleMap) = 2 * Len(paths)
           /\ \A i \in DOMAIN paths :
                  /\ MapGet(moduleMap, paths[i]) # <<>>
                  /\ MapGet(moduleMap, WithoutJs(paths[i])) = MapGet(moduleMap, paths[i])

\* C3: absolute-path rewriting is idempotent: when every import of a file was
\* absolutified (extension .js with changeRelativeToAbsolute, or .json), applying
\* replaceImports again to the output, with the same resolveDir, leaves in every
\* import argument the normalized path that the first application put there.
C3_AbsolutifyIdempotent ==
    (/\ rw.pc = "done"
     /\ rw.pass >= 2
     /\ MatchAll(rw.prev.input) # <<>>
     /\ \A i \in DOMAIN MatchAll(rw.prev.input) :
            LET dest == DestinationFile(MatchAll(rw.prev.input)[i])
            IN  /\ IsAbsolutified(dest, config)
                /\ Len(ImportArgs(rw.prev.out.contents)) = Len(MatchAll(rw.prev.input))
                /\ ImportArgs(rw.prev.out.contents)[i]
                       = Quoted(NormalizedPath(rw.resolveDir, dest)))
    => ImportArgs(rw.out.contents) = ImportArgs(rw.prev.out.contents)

\* C4: each match classified for absolute-ification has its own argument, at the
\* position of the match, replaced by the backtick-quoted normalized path, and
\* nothing outside that argument is changed by the step, also when the same
\* argument text occurs elsewhere in the file: after k matches the text is the
\* input with the absolutified ones among them replaced in place.
C4_ReplacedInPlace ==
    (rw.pc = "classify" /\ rw.pass = 1)
    => rw.st.fileContents
           = AbsolutifiedInPlace(rw.input, rw.matches, rw.k - 1, rw.resolveDir)

\* the slot a path gets when slots are given in first-seen order of the
\* normalized paths
FirstSeenSlot(paths, resolveDir, filePath) ==
    LET first == Min({i \in DOMAIN paths :
                         NormalizedIn(resolveDir, paths[i])
                             = NormalizedIn(resolveDir, filePath)})
    IN  Cardinality({NormalizedIn(resolveDir, paths[i]) : i \in 1 .. first}) - 1

\* C5: spellings that normalize to the same absolute path share one slot: there
\* are as many static imports as distinct normalized paths, the slots are
\* _DynamicImportModule0..N-1 in first-seen order, every resolved spelling is a
\* key of the map, and every map value is bound by exactly one static import,
\* of a file with that normalized path.
C5_DedupByNormalizedPath ==
    (rw.pc = "done" /\ rw.out.preamble # <<>>)
    => LET paths == rw.out.importFilePaths
           moduleMap == rw.out.d.moduleMap
           N == Cardinality({NormalizedIn(rw.resolveDir, paths[i]) : i \in DOMAIN paths})
       IN  /\ CountOcc(rw.out.preamble, KwStaticImport) = N
           /\ \A n \in 0 .. N - 1 :
                  CountOcc(rw.out.preamble,
                           KwStaticImport \o ModuleName(n) \o <<" ", "f">>) = 1
           /\ \A i \in DOMAIN paths :
                  /\ MapGet(moduleMap, paths[i])
                         = ModuleName(FirstSeenSlot(paths, rw.resolveDir, paths[i]))
                  /\ Contains(rw.out.preamble,
                              <<"'">> \o paths[i] \o <<"'", ":">>
                              \o MapGet(moduleMap, paths[i]))
           /\ \A j \in DOMAIN moduleMap :
                  \E i \in DOMAIN paths :
                      /\ NormalizedIn(rw.resolveDir, paths[i])
                             = NormalizedIn(rw.resolveDir, moduleMap[j].key)
                      /\ Contains(rw.out.preamble,
                                  ImportStatement(
                                      FirstSeenSlot(paths, rw.resolveDir, paths[i]),
                                      paths[i]))
                      /\ moduleMap[j].value
                             = ModuleName(FirstSeenSlot(paths, rw.resolveDir, paths[i]))

\* two different spellings of one file share a slot of the emitted map
C5_Witness ==
    /\ rw.pc = "done"
    /\ rw.out.preamble # <<>>
    /\ \E i, j \in DOMAIN rw.out.d.moduleMap :
           /\ rw.out.d.moduleMap[i].key # rw.out.d.moduleMap[j].key
           /\ rw.out.d.moduleMap[i].value = rw.out.d.moduleMap[j].value
    /\ Len(rw.out.d.dedupedImportFilePaths) >= 2

\* C7: when one of several glob patterns fails and another resolves to paths,
\* the transform continues with the paths of the patterns that succeeded: the
\* module map is built from them and the queued import calls are replaced.
C7_PartialFailureContinues ==
    (/\ rw.pc = "done"
     /\ rw.pass = 1
     /\ Len(rw.outcomes) >= 2
     /\ \E i \in DOMAIN rw.outcomes : ~rw.outcomes[i].ok
     /\ \E i \in DOMAIN rw.outcomes : rw.outcomes[i].ok /\ rw.outcomes[i].paths # <<>>)
    => /\ rw.out.preamble # <<>>
       /\ \A i \in DOMAIN rw.outcomes :
              \A j \in DOMAIN rw.outcomes[i].paths :
                  MapGet(rw.out.d.moduleMap, rw.outcomes[i].paths[j]) # <<>>
       /\ \A q \in DOMAIN rw.st.importsToReplace :
              Contains(rw.out.contents,
                       KwDynamicImport \o rw.st.importsToReplace[q].pathString \o <<")">>)

\* the step of replaceImports that handles match rw.matches[rw.k]
IsMatchStep == rw.pc = "classify" /\ rw'.pc = "classify" /\ rw'.k = rw.k + 1

\* the first rule of the classification, as the claim words it
RuleAbsolutify(dest) ==
    \/ config.changeRelativeToAbsolute /\ ~IsAbsolute(dest) /\ Extname(dest) = ExtJs
    \/ Extname(dest) = ExtJson

\* the second rule of the classification, as the claim words it
RuleGlob(dest) ==
    /\ config.transformExtensions.isArray
    /\ Extname(dest) \in config.transformExtensions.items
    /\ \E i, j \in DOMAIN dest : IsPrefixAt(dest, i, <<"$", "{">>) /\ j > i + 1 /\ dest[j] = "}"

\* the path is absolute and neither rule takes it, or its extension is in
\* neither rule
FallsThrough(dest) ==
    \/ IsAbsolute(dest) /\ Extname(dest) \notin {ExtJs, ExtJson} /\ ~RuleGlob(dest)
    \/ Extname(dest) \notin ({ExtJs, ExtJson} \cup config.transformExtensions.items)

Body(out) == SubSeq(out.contents, Len(out.preamble) + 1, Len(out.contents))

\* C9: replaceImports ends in one of two shapes. When glob resolution yields a
\* path, the preamble is prepended exactly once and every queued import(...)
\* call is replaced by _DynamicImport(<its template-literal path>), whatever
\* other matches the file holds and in whatever order. When it yields none, no
\* preamble is emitted and no queued call is replaced.
C9_PreambleIffAllReplaced ==
    (rw.pc = "done" /\ rw.pass = 1)
    => IF rw.out.importFilePaths # <<>>
       THEN /\ rw.out.preamble # <<>>
            /\ IsPrefixAt(rw.out.contents, 1, rw.out.preamble)
            /\ CountOcc(rw.out.contents, ImportFunctionString) = 1
            /\ CountOcc(Body(rw.out), KwDynamicImport) = Len(rw.st.importsToReplace)
            /\ \A q \in DOMAIN rw.st.importsToReplace :
                   Contains(Body(rw.out),
                            KwDynamicImport \o rw.st.importsToReplace[q].pathString
                            \o <<")">>)
       ELSE /\ rw.out.preamble = <<>>
            /\ rw.out.contents = rw.st.fileContents
            /\ CountOcc(rw.out.contents, KwDynamicImport) = 0
            /\ CountOcc(rw.out.contents, ImportFunctionString) = 0

(***************************************************************************)
(* Properties of the onLoad callback                                        *)
(***************************************************************************)

\* the contents has an import that replaceImports queues for a glob call
HasQueuedImport(fileContents) ==
    \E i \in DOMAIN MatchAll(fileContents) :
        RuleGlob(DestinationFile(MatchAll(fileContents)[i]))
        /\ ~RuleAbsolutify(DestinationFile(MatchAll(fileContents)[i]))

\* C1 (load requests one after the other): a call that reads the contents read
\* by the previous call on its path returns the cached output, and neither
\* replaceImports nor the glob resolver is called; a call that reads other
\* contents calls replaceImports again, and the glob resolver when the contents
\* have a queued import, and overwrites the cache entry of the path with the
\* contents it read and the output it returns.
C1_CacheBusting ==
    [][\A i \in Invocations :
          /\ (inv[i].pc = "reading" /\ inv'[i].pc # "reading") =>
                 IF lastRead[inv[i].path] = disk[inv[i].path]
                 THEN /\ inv'[i].pc = "done"
                      /\ inv'[i].output = cache[inv[i].path].output
                      /\ rewriteCalls' = rewriteCalls
                      /\ globCalls' = globCalls
                      /\ cache' = cache
                 ELSE /\ inv'[i].pc \in {"globbing", "rewritten"}
                      /\ rewriteCalls' = rewriteCalls + 1
                      /\ HasQueuedImport(disk[inv[i].path]) => globCalls' > globCalls
          /\ (inv[i].pc = "rewritten" /\ inv'[i].pc = "done") =>
                 /\ cache'[inv[i].path].present
                 /\ cache'[inv[i].path].fileContents = inv[i].fileContents
                 /\ cache'[inv[i].path].output = inv'[i].output
                 /\ inv'[i].output.contents = inv[i].contents]_vars

\* the second call on a path read the contents of the first, which has a queued
\* import, and was served from the cache
C1_Witness ==
    \E i \in Invocations :
        /\ inv[i].pc = "done"
        /\ inv[i].hit
        /\ loads = 2
        /\ rewriteCalls = 1
        /\ globCalls = 1

\* C6: the output returned for a path whose extension is .json has loader
\* json, whatever config.loader is and whether the output was computed or
\* came from the cache; for any other path the loader is config.loader, or js
\* when that is not set.
C6_LoaderSelection ==
    \A i \in Invocations :
        inv[i].pc = "done" =>
            inv[i].output.loader
                = IF Extname(inv[i].path) = ExtJson THEN "json"
                  ELSE IF config.loader = Undefined THEN "js"
                  ELSE config.loader

\* an output for a .json path is served from the cache while config.loader is set
C6_Witness ==
    \E i \in Invocations :
        /\ inv[i].pc = "done"
        /\ inv[i].hit
        /\ inv[i].path = PathDataJson
        /\ config.loader = "ts"

\* the texts replaceImports may return for the contents of a file, one for each
\* way the glob calls may settle
ReturnedFor(c, path, fileContents) ==
    LET st == ClassifyAll(fileContents, Dirname(path), c)
    IN  {FinishReplaceImports(st, outcomes, Dirname(path)).contents :
            outcomes \in [1 .. Len(st.globImports) -> LoaderGlobOutcomes]}

\* C10: under any interleaving of load invocations, overlapping ones for one
\* path included, each cache entry pairs contents with an output replaceImports
\* produced for those contents, each invocation returns an output computed from
\* the contents that invocation read, and an invocation for a path changes the
\* cache entry of no other path. The cache starts empty and no invocation has
\* returned; every step that changes a cache entry is the store of an
\* invocation for that path and leaves such a pair in it; every step in which
\* an invocation returns gives it the output of the cache entry for the
\* contents it read, which is such a pair, or an output replaceImports may
\* return for those contents.
C10_CacheConsistent ==
    /\ \A path \in Paths : ~cache[path].present
    /\ \A i \in Invocations : inv[i].pc # "done"
    /\ [][/\ \A path \in Paths :
                cache'[path] # cache[path] =>
                    /\ \E i \in Invocations :
                           /\ inv[i].path = path
                           /\ inv[i].pc = "rewritten"
                           /\ inv'[i].pc = "done"
                    /\ cache'[path].present
                    /\ cache'[path].output.contents
                           \in ReturnedFor(config, path, cache'[path].fileContents)
          /\ \A i \in Invocations :
                (inv[i].pc # "done" /\ inv'[i].pc = "done") =>
                    \/ /\ cache'[inv'[i].path].present
                       /\ cache'[inv'[i].path].fileContents = inv'[i].fileContents
                       /\ cache'[inv'[i].path].output.contents
                              = inv'[i].output.contents
                    \/ inv'[i].output.contents
                           \in ReturnedFor(config, inv'[i].path, inv'[i].fileContents)]_vars

\* two invocations for one path overlap, having read different contents: one
\* has stored its value, the other is about to
C10_Witness ==
    \E i, j \in Invocations :
        /\ i # j
        /\ inv[i].path = inv[j].path
        /\ inv[i].pc = "done"
        /\ ~inv[i].hit
        /\ inv[j].pc = "rewritten"
        /\ inv[i].fileContents # inv[j].fileContents
        /\ cache[inv[i].path].fileContents = inv[i].fileContents

====
